---- MODULE Spec2Model ----
(***************************************************************************)
(* Model of the exported-image cache of figma-mcp (src/figma/image_cache.rs)*)
(* and of the server handlers that use it (src/server.rs): export_images,  *)
(* list_resources and read_resource with its lazy download.                *)
(* Also the response handling of the API client (src/figma/client.rs) and  *)
(* the URL parser (src/figma/url_parser.rs), as pure functions.            *)
(*                                                                         *)
(* Representation:                                                         *)
(*   Option<T>      None is <<>>, Some(x) is <<x>>                         *)
(*   Vec<u8>        a sequence of numbers                                  *)
(*   f64 scale      the scale in tenths (1.0 is 10, 2.5 is 25)             *)
(*   SystemTime     milliseconds on the wall clock                        *)
(*   HashMap        a function whose DOMAIN is the set of keys             *)
(*   serde Value    a record tagged by kind: null, string, number, array,  *)
(*                  object (with its fields as a function from the keys)   *)
(*   Result<Value>  a record tagged Ok (with value) or Err (error, msg)    *)
(*   &str URL       the sequence of its characters                         *)
(***************************************************************************)
EXTENDS Integers, Sequences, FiniteSets, TLC

(* ---------------------------------------------------------------------- *)
(* Bound: the number of read_resource requests that can be in flight       *)
(* ---------------------------------------------------------------------- *)
NumTasks == 2

(* ---------------------------------------------------------------------- *)
(* Input sets                                                              *)
(* ---------------------------------------------------------------------- *)
Tasks == 1..NumTasks
FileKeys == {"ABC123"}
NodeIdSeq == <<"1:2">>
ExportNodeIdSeq == <<"1:2", "3:4">>
NodeIds == {NodeIdSeq[i] : i \in 1..Len(NodeIdSeq)}
Formats == {"png"}
Scales == {10, 20, 25}
ExportScales == {10}
Urls == {"https://x/y", "https://x/z"}
Bodies == {<<137, 80>>, <<>>}
ClockValues == {0, 3600000, 3600500, 3601000}
UnknownUri == "figma://file/ABC123/node/9:9.png"
HttpStatuses == {200, 201, 400, 403, 404, 500}

(* ---------------------------------------------------------------------- *)
(* Program constants                                                       *)
(* ---------------------------------------------------------------------- *)
ScaleOne == 10
TTL_SECS == 3600
MillisPerSec == 1000

None == <<>>
Some(x) == <<x>>

VARIABLES entries, now, pc, req, exp, last
vars == <<entries, now, pc, req, exp, last>>

(* ---------------------------------------------------------------------- *)
(* ImageCache                                                              *)
(* ---------------------------------------------------------------------- *)
\* f64 -> u32 cast that rounds to the nearest integer
as_u32_rounds(scale) == (scale + (ScaleOne \div 2)) \div ScaleOne

\* f64 -> u32 cast of a non-negative scale: truncation towards zero
as_u32(scale) == scale \div ScaleOne

generate_uri(file_key, node_id, format, scale) ==
    IF scale # ScaleOne
    THEN "figma://file/" \o file_key \o "/node/" \o node_id \o "@"
             \o ToString(as_u32(scale)) \o "x." \o format
    ELSE "figma://file/" \o file_key \o "/node/" \o node_id \o "." \o format

ImageEntry(file_key, node_id, format, scale, figma_url, cached_data, export_time) ==
    [file_key |-> file_key, node_id |-> node_id, format |-> format,
     scale |-> scale, figma_url |-> figma_url,
     cached_data |-> cached_data, export_time |-> export_time]

\* HashMap::insert: adds the key or replaces the value stored under it
insert(map, k, v) == [x \in DOMAIN map \cup {k} |-> IF x = k THEN v ELSE map[x]]

\* register_export with entry().or_insert in place of insert: an existing
\* entry is kept
register_export_or_insert(map, file_key, node_id, format, scale, figma_url, clock) ==
    IF generate_uri(file_key, node_id, format, scale) \in DOMAIN map
    THEN map
    ELSE insert(map, generate_uri(file_key, node_id, format, scale),
                ImageEntry(file_key, node_id, format, scale, figma_url, None, clock))

\* register_export that carries the cached_data of the entry it replaces
register_export_keep_cache(map, file_key, node_id, format, scale, figma_url, clock) ==
    LET uri == generate_uri(file_key, node_id, format, scale) IN
      insert(map, uri,
             ImageEntry(file_key, node_id, format, scale, figma_url,
                        IF uri \in DOMAIN map THEN map[uri].cached_data ELSE None, clock))

\* register_export that starts the entry with Some(Vec::new())
register_export_empty_vec(map, file_key, node_id, format, scale, figma_url, clock) ==
    insert(map, generate_uri(file_key, node_id, format, scale),
           ImageEntry(file_key, node_id, format, scale, figma_url, Some(<<>>), clock))

\* register_export that writes figma_url, export_time and cached_data into
\* the entry already under the uri
register_export_update_in_place(map, file_key, node_id, format, scale, figma_url, clock) ==
    LET uri == generate_uri(file_key, node_id, format, scale) IN
      IF uri \in DOMAIN map
      THEN [map EXCEPT ![uri].figma_url = figma_url,
                       ![uri].export_time = clock,
                       ![uri].cached_data = None]
      ELSE insert(map, uri, ImageEntry(file_key, node_id, format, scale, figma_url, None, clock))

\* register_export that keeps the export_time of the entry it replaces
register_export_keep_time(map, file_key, node_id, format, scale, figma_url, clock) ==
    LET uri == generate_uri(file_key, node_id, format, scale) IN
      insert(map, uri,
             ImageEntry(file_key, node_id, format, scale, figma_url, None,
                        IF uri \in DOMAIN map THEN map[uri].export_time ELSE clock))

\* the map after register_export; the call returns generate_uri(...)
register_export(map, file_key, node_id, format, scale, figma_url, clock) ==
    insert(map, generate_uri(file_key, node_id, format, scale),
           ImageEntry(file_key, node_id, format, scale, figma_url, None, clock))

list_all(map) == {<<uri, map[uri]>> : uri \in DOMAIN map}

\* get_entry with unwrap_or_default: an unknown uri yields an empty entry
get_entry_or_default(map, uri) ==
    IF uri \in DOMAIN map THEN Some(map[uri])
    ELSE Some(ImageEntry("", "", "", 0, "", None, 0))

get_entry(map, uri) == IF uri \in DOMAIN map THEN Some(map[uri]) ELSE None

\* update_cached_data that reports Ok without storing the data
update_cached_data_noop(map, uri, data) ==
    IF uri \in DOMAIN map
    THEN [map |-> map, result |-> "Ok"]
    ELSE [map |-> map, result |-> "NotFound"]

\* update_cached_data that creates the entry it does not find
update_cached_data_upsert(map, uri, data) ==
    IF uri \in DOMAIN map
    THEN [map |-> [map EXCEPT ![uri].cached_data = Some(data)], result |-> "Ok"]
    ELSE [map |-> insert(map, uri, ImageEntry("", "", "", 0, "", Some(data), 0)),
          result |-> "Ok"]

\* update_cached_data that stores the bytes in every entry of the map
update_cached_data_all(map, uri, data) ==
    IF uri \in DOMAIN map
    THEN [map |-> [u \in DOMAIN map |-> [map[u] EXCEPT !.cached_data = Some(data)]],
          result |-> "Ok"]
    ELSE [map |-> map, result |-> "NotFound"]

\* update_cached_data that keeps bytes already stored
update_cached_data_first_wins(map, uri, data) ==
    IF uri \in DOMAIN map
    THEN [map |-> IF map[uri].cached_data = None
                  THEN [map EXCEPT ![uri].cached_data = Some(data)]
                  ELSE map,
          result |-> "Ok"]
    ELSE [map |-> map, result |-> "NotFound"]

\* update_cached_data: the map afterwards and the Result it returns
update_cached_data(map, uri, data) ==
    IF uri \in DOMAIN map
    THEN [map |-> [map EXCEPT ![uri].cached_data = Some(data)], result |-> "Ok"]
    ELSE [map |-> map, result |-> "NotFound"]

\* SystemTime::elapsed is Err when export_time is later than the clock
is_expired(entry, clock) ==
    IF clock >= entry.export_time
    THEN ((clock - entry.export_time) \div MillisPerSec) > TTL_SECS
    ELSE TRUE

(* ---------------------------------------------------------------------- *)
(* State                                                                   *)
(*   entries  the map of the cache                                         *)
(*   now      the wall clock                                               *)
(*   pc, req  per read_resource task: its await point, the fields of its   *)
(*            entry copy that it still uses, and the RwLock guard it holds *)
(*            while suspended ("none", "read" or "write")                  *)
(*   exp      the export_images handler that is past its gateway call:     *)
(*            its arguments with the defaults applied, the images it has   *)
(*            still to visit, and the gateway payload (result) it returns  *)
(*   last     the operation performed by the latest step: what it was      *)
(*            called with (arg) and what it returned (uri, status, ret;    *)
(*            for a registration ret is the entry that was replaced)       *)
(* ---------------------------------------------------------------------- *)
NoReq == [uri |-> "", figma_url |-> "", format |-> "", guard |-> "none"]
NoExport == [pc |-> "idle", file_key |-> "", format |-> "", scale |-> 0,
             images |-> <<>>, result |-> <<>>]
Outcome(op, step, uri, status, ret, arg) ==
    [op |-> op, step |-> step, uri |-> uri, status |-> status, ret |-> ret, arg |-> arg]

Init ==
    /\ entries = [u \in {} |-> None]
    /\ now = 0
    /\ pc = [t \in Tasks |-> "idle"]
    /\ req = [t \in Tasks |-> NoReq]
    /\ exp = NoExport
    /\ last = Outcome("new", "", "", "Ok", None, None)

ReadUris == {generate_uri(f, n, fm, s) : f \in FileKeys, n \in NodeIds,
                                         fm \in Formats, s \in Scales}
                \cup {UnknownUri}

(* ---------------------------------------------------------------------- *)
(* The RwLock around the map. Every cache method takes its guard and drops *)
(* it before it returns, so a guard is held between two steps only if a    *)
(* suspended task kept one.                                                *)
(* ---------------------------------------------------------------------- *)
\* entries.read() succeeds: no writer holds the lock
can_read == \A t \in Tasks : req[t].guard # "write"
\* entries.write() succeeds: nobody holds the lock
can_write == \A t \in Tasks : req[t].guard = "none"

(* ---------------------------------------------------------------------- *)
(* The wall clock                                                          *)
(* ---------------------------------------------------------------------- *)
Tick(c) ==
    /\ c > now
    /\ now' = c
    /\ last' = Outcome("tick", "", "", "Ok", None, None)
    /\ UNCHANGED <<entries, pc, req, exp>>

\* the wall clock is not monotonic: it can be set back
ClockSetBack(c) ==
    /\ c < now
    /\ now' = c
    /\ last' = Outcome("set_back", "", "", "Ok", None, None)
    /\ UNCHANGED <<entries, pc, req, exp>>

(* ---------------------------------------------------------------------- *)
(* Direct calls of the cache API                                           *)
(* ---------------------------------------------------------------------- *)
\* what HashMap::insert finds under the key: recorded with a registration
Displaced(uri) == IF uri \in DOMAIN entries THEN Some(entries[uri]) ELSE None

Inputs(file_key, node_id, format, scale, figma_url) ==
    [file_key |-> file_key, node_id |-> node_id, format |-> format,
     scale |-> scale, figma_url |-> figma_url]

RegisterExport(file_key, node_id, format, scale, figma_url) ==
    /\ can_write
    /\ entries' = register_export(entries, file_key, node_id, format, scale, figma_url, now)
    /\ last' = Outcome("register_export", "",
                       generate_uri(file_key, node_id, format, scale), "Ok",
                       Displaced(generate_uri(file_key, node_id, format, scale)),
                       Inputs(file_key, node_id, format, scale, figma_url))
    /\ UNCHANGED <<now, pc, req, exp>>

GetEntry(uri) ==
    /\ can_read
    /\ last' = Outcome("get_entry", "", uri, "Ok", get_entry(entries, uri), None)
    /\ UNCHANGED <<entries, now, pc, req, exp>>

ListAll ==
    /\ can_read
    /\ last' = Outcome("list_all", "", "", "Ok", list_all(entries), None)
    /\ UNCHANGED <<entries, now, pc, req, exp>>

UpdateCachedData(uri, data) ==
    /\ can_write
    /\ entries' = update_cached_data(entries, uri, data).map
    /\ last' = Outcome("update_cached_data", "", uri,
                       update_cached_data(entries, uri, data).result, None, data)
    /\ UNCHANGED <<now, pc, req, exp>>

IsExpired(uri) ==
    /\ uri \in DOMAIN entries
    /\ last' = Outcome("is_expired", "", uri, "Ok", is_expired(entries[uri], now), None)
    /\ UNCHANGED <<entries, now, pc, req, exp>>

(* ---------------------------------------------------------------------- *)
(* FigmaServer::read_resource                                              *)
(* ---------------------------------------------------------------------- *)
\* lookup with the expiry check ahead of the cached_data branch
lookup_expiry_first(map, uri, clock) ==
    LET found == get_entry(map, uri) IN
      IF found = None
      THEN [status |-> "NotFound", ret |-> None]
      ELSE IF is_expired(found[1], clock)
      THEN [status |-> "Expired", ret |-> None]
      ELSE IF found[1].cached_data # None
      THEN [status |-> "Ok", ret |-> found[1].cached_data[1]]
      ELSE [status |-> "Pending", ret |-> found[1]]

\* lookup without the expiry check
lookup_no_expiry(map, uri, clock) ==
    LET found == get_entry(map, uri) IN
      IF found = None
      THEN [status |-> "NotFound", ret |-> None]
      ELSE IF found[1].cached_data # None
      THEN [status |-> "Ok", ret |-> found[1].cached_data[1]]
      ELSE [status |-> "Pending", ret |-> found[1]]

\* The handler up to its first await: get_entry, the branch on the copy's
\* cached_data, then is_expired on the copy. "Pending" stands for reaching
\* reqwest::get, with the copy as ret.
lookup(map, uri, clock) ==
    LET found == get_entry(map, uri) IN
      IF found = None
      THEN [status |-> "NotFound", ret |-> None]
      ELSE IF found[1].cached_data # None
      THEN [status |-> "Ok", ret |-> found[1].cached_data[1]]
      ELSE IF is_expired(found[1], clock)
      THEN [status |-> "Expired", ret |-> None]
      ELSE [status |-> "Pending", ret |-> found[1]]

\* ReadLookup that evicts the entry it finds expired
ReadLookup_evicts_expired(t, uri) ==
    /\ pc[t] = "idle"
    /\ can_read
    /\ LET r == lookup(entries, uri, now) IN
         IF r.status = "Pending"
         THEN /\ pc' = [pc EXCEPT ![t] = "sending"]
              /\ req' = [req EXCEPT ![t] = [uri |-> uri, figma_url |-> r.ret.figma_url,
                                            format |-> r.ret.format, guard |-> "none"]]
              /\ last' = Outcome("read_resource", "lookup", uri, "Pending", None, None)
              /\ UNCHANGED entries
         ELSE /\ last' = Outcome("read_resource", "lookup", uri, r.status, r.ret, None)
              /\ entries' = IF r.status = "Expired"
                            THEN [u \in DOMAIN entries \ {uri} |-> entries[u]]
                            ELSE entries
              /\ UNCHANGED <<pc, req>>
    /\ UNCHANGED <<now, exp>>

\* ReadLookup whose read guard is still alive at the await
ReadLookup_holds_guard(t, uri) ==
    /\ pc[t] = "idle"
    /\ can_read
    /\ LET r == lookup(entries, uri, now) IN
         IF r.status = "Pending"
         THEN /\ pc' = [pc EXCEPT ![t] = "sending"]
              /\ req' = [req EXCEPT ![t] = [uri |-> uri, figma_url |-> r.ret.figma_url,
                                            format |-> r.ret.format, guard |-> "read"]]
              /\ last' = Outcome("read_resource", "lookup", uri, "Pending", None, None)
         ELSE /\ last' = Outcome("read_resource", "lookup", uri, r.status, r.ret, None)
              /\ UNCHANGED <<pc, req>>
    /\ UNCHANGED <<entries, now, exp>>

\* One poll of the handler from the request to its return or first await.
\* get_entry drops its read guard when it returns the copy. Past the await
\* the handler uses the copy's figma_url and format only.
ReadLookup(t, uri) ==
    /\ pc[t] = "idle"
    /\ can_read
    /\ LET r == lookup(entries, uri, now) IN
         IF r.status = "Pending"
         THEN /\ pc' = [pc EXCEPT ![t] = "sending"]
              /\ req' = [req EXCEPT ![t] = [uri |-> uri, figma_url |-> r.ret.figma_url,
                                            format |-> r.ret.format, guard |-> "none"]]
              /\ last' = Outcome("read_resource", "lookup", uri, "Pending", None, None)
         ELSE /\ last' = Outcome("read_resource", "lookup", uri, r.status, r.ret, None)
              /\ UNCHANGED <<pc, req>>
    /\ UNCHANGED <<entries, now, exp>>

DownloadFailures == {"transport_error", "http_error", "body_error"}

\* reqwest::get resolves: transport error, non-success status, or a response
ReadSend(t, response) ==
    /\ pc[t] = "sending"
    /\ IF response \in {"transport_error", "http_error"}
       THEN /\ last' = Outcome("read_resource", "send", req[t].uri, "DownloadError",
                               None, response)
            /\ pc' = [pc EXCEPT ![t] = "idle"]
            /\ req' = [req EXCEPT ![t] = NoReq]
       ELSE /\ last' = Outcome("read_resource", "send", req[t].uri, "Pending", None, None)
            /\ pc' = [pc EXCEPT ![t] = "body"]
            /\ UNCHANGED req
    /\ UNCHANGED <<entries, now, exp>>

\* ReadBodyError that caches the empty body it was left with
ReadBodyError_caches_empty(t) ==
    /\ pc[t] = "body"
    /\ last' = Outcome("read_resource", "body", req[t].uri, "DownloadError",
                       None, "body_error")
    /\ entries' = update_cached_data(entries, req[t].uri, <<>>).map
    /\ pc' = [pc EXCEPT ![t] = "idle"]
    /\ req' = [req EXCEPT ![t] = NoReq]
    /\ UNCHANGED <<now, exp>>

\* response.bytes() fails: the read returns an error
ReadBodyError(t) ==
    /\ pc[t] = "body"
    /\ last' = Outcome("read_resource", "body", req[t].uri, "DownloadError",
                       None, "body_error")
    /\ pc' = [pc EXCEPT ![t] = "idle"]
    /\ req' = [req EXCEPT ![t] = NoReq]
    /\ UNCHANGED <<entries, now, exp>>

\* the cached_data that the entry under uri holds before a persist
Overwritten(uri) == IF uri \in DOMAIN entries THEN entries[uri].cached_data ELSE None

\* response.bytes() yields data: update_cached_data (result ignored), return
\* data. The step records as arg what the entry held before.
ReadBody(t, data) ==
    /\ pc[t] = "body"
    /\ can_write
    /\ entries' = update_cached_data(entries, req[t].uri, data).map
    /\ last' = Outcome("read_resource", "body", req[t].uri, "Ok", data,
                       Overwritten(req[t].uri))
    /\ pc' = [pc EXCEPT ![t] = "idle"]
    /\ req' = [req EXCEPT ![t] = NoReq]
    /\ UNCHANGED <<now, exp>>

\* ReadAbandon that stores the bytes received so far
ReadAbandon_persists_partial(t) ==
    /\ pc[t] \in {"sending", "body"}
    /\ last' = Outcome("read_resource", "abandon", req[t].uri, "Abandoned", None, None)
    /\ entries' = update_cached_data(entries, req[t].uri, <<>>).map
    /\ pc' = [pc EXCEPT ![t] = "idle"]
    /\ req' = [req EXCEPT ![t] = NoReq]
    /\ UNCHANGED <<now, exp>>

\* the request future is dropped at one of its two await points
ReadAbandon(t) ==
    /\ pc[t] \in {"sending", "body"}
    /\ last' = Outcome("read_resource", "abandon", req[t].uri, "Abandoned", None, None)
    /\ pc' = [pc EXCEPT ![t] = "idle"]
    /\ req' = [req EXCEPT ![t] = NoReq]
    /\ UNCHANGED <<entries, now, exp>>

(* ---------------------------------------------------------------------- *)
(* FigmaServer::list_resources                                             *)
(* ---------------------------------------------------------------------- *)
size(cached_data) == IF cached_data = None THEN None ELSE Some(Len(cached_data[1]))

ListResources ==
    /\ can_read
    /\ last' = Outcome("list_resources", "", "", "Ok",
                       {[uri |-> r[1], size |-> size(r[2].cached_data)] : r \in list_all(entries)},
                       None)
    /\ UNCHANGED <<entries, now, pc, req, exp>>

Null == "null"
unwrap_or(opt, default) == IF opt = None THEN default ELSE opt[1]

(* ---------------------------------------------------------------------- *)
(* FigmaClient: what get_file, get_file_nodes, export_images and get_me    *)
(* make of the outcome of their request                                    *)
(* ---------------------------------------------------------------------- *)
JNull == [kind |-> "null"]
JString(str) == [kind |-> "string", s |-> str]
JNumber(n) == [kind |-> "number", n |-> n]
JArray(items) == [kind |-> "array", items |-> items]
JObject(fields) == [kind |-> "object", fields |-> fields]

\* The bodies a response can have: text is what response.text() yields (None
\* when the body cannot be read), json what response.json() yields (None when
\* the body cannot be read or is not JSON).
ResponseBodies ==
    { [text |-> Some("{\"name\":\"Doc\"}"),
       json |-> Some(JObject([name |-> JString("Doc")]))],
      [text |-> Some("{\"err\":\"Not found\",\"status\":404}"),
       json |-> Some(JObject([err |-> JString("Not found"), status |-> JNumber(404)]))],
      [text |-> Some("{\"err\":null,\"images\":{}}"),
       json |-> Some(JObject([err |-> JNull, images |-> JObject(<<>>)]))],
      [text |-> Some("[]"), json |-> Some(JArray(<<>>))],
      [text |-> Some("<html>"), json |-> None],
      [text |-> Some(""), json |-> None],
      [text |-> None, json |-> None] }

\* what send() resolves to: a transport error or a response
TransportError == [kind |-> "transport_error"]
Response(status, body) == [kind |-> "response", status |-> status, body |-> body]
SendOutcomes == {TransportError} \cup {Response(st, b) : st \in HttpStatuses, b \in ResponseBodies}

\* the outcomes with which the export_images handler is made to fail: a
\* transport error, a non-2xx status, a 2xx payload with the field err, and
\* a 2xx body that is not JSON
ExportFailures ==
    { TransportError,
      Response(404, [text |-> Some("{\"err\":\"Not found\",\"status\":404}"),
                     json |-> Some(JObject([err |-> JString("Not found"),
                                            status |-> JNumber(404)]))]),
      Response(200, [text |-> Some("{\"err\":\"Not found\",\"status\":404}"),
                     json |-> Some(JObject([err |-> JString("Not found"),
                                            status |-> JNumber(404)]))]),
      Response(200, [text |-> Some("<html>"), json |-> None]) }

Ok(value) == [kind |-> "Ok", value |-> value]
Err(error, msg) == [kind |-> "Err", error |-> error, msg |-> msg]

\* StatusCode::is_success
is_success(status) == 200 <= status /\ status <= 299

\* Display of StatusCode: the code and its canonical reason
canonical_reason(status) ==
    CASE status = 200 -> "OK"
      [] status = 201 -> "Created"
      [] status = 400 -> "Bad Request"
      [] status = 403 -> "Forbidden"
      [] status = 404 -> "Not Found"
      [] status = 500 -> "Internal Server Error"

status_display(status) == ToString(status) \o " " \o canonical_reason(status)

\* Value::get with a string key: only an object has keys
value_get(value, key) ==
    IF value.kind = "object" /\ key \in DOMAIN value.fields
    THEN Some(value.fields[key])
    ELSE None

\* Value::to_string, the JSON text of a scalar: a string keeps its quotes
value_to_string(value) ==
    CASE value.kind = "null" -> "null"
      [] value.kind = "string" -> "\"" \o value.s \o "\""
      [] value.kind = "number" -> ToString(value.n)

\* the part the four methods have in common, from the send() on
handle(sent) ==
    IF sent.kind = "transport_error"
    THEN Err("Network", "send")
    ELSE IF ~is_success(sent.status)
    THEN Err("FigmaApi", "HTTP " \o status_display(sent.status) \o ": "
                            \o unwrap_or(sent.body.text, ""))
    ELSE IF sent.body.json = None
    THEN Err("Network", "decode")
    ELSE IF value_get(sent.body.json[1], "err") # None
    THEN Err("FigmaApi", value_to_string(value_get(sent.body.json[1], "err")[1]))
    ELSE Ok(sent.body.json[1])

get_file(sent) == handle(sent)

get_file_nodes(sent) == handle(sent)

export_images(sent) == handle(sent)

\* get_me that returns every 2xx payload
get_me_no_err_check(sent) ==
    IF sent.kind = "transport_error"
    THEN Err("Network", "send")
    ELSE IF ~is_success(sent.status)
    THEN Err("FigmaApi", "HTTP " \o status_display(sent.status) \o ": "
                            \o unwrap_or(sent.body.text, ""))
    ELSE IF sent.body.json = None
    THEN Err("Network", "decode")
    ELSE Ok(sent.body.json[1])

get_me(sent) == handle(sent)

GetFile(sent) ==
    /\ last' = Outcome("get_file", "", "", get_file(sent).kind, get_file(sent), sent)
    /\ UNCHANGED <<entries, now, pc, req, exp>>

GetFileNodes(sent) ==
    /\ last' = Outcome("get_file_nodes", "", "", get_file_nodes(sent).kind,
                       get_file_nodes(sent), sent)
    /\ UNCHANGED <<entries, now, pc, req, exp>>

ExportImages(sent) ==
    /\ last' = Outcome("export_images", "gateway", "", export_images(sent).kind,
                       export_images(sent), sent)
    /\ UNCHANGED <<entries, now, pc, req, exp>>

GetMe(sent) ==
    /\ last' = Outcome("get_me", "", "", get_me(sent).kind, get_me(sent), sent)
    /\ UNCHANGED <<entries, now, pc, req, exp>>

(* ---------------------------------------------------------------------- *)
(* FigmaServer::export_images                                              *)
(* ---------------------------------------------------------------------- *)

\* ExportFail that empties the cache
ExportFail_clears_cache(sent) ==
    /\ exp.pc = "idle"
    /\ export_images(sent).kind = "Err"
    /\ last' = Outcome("export_images", "response", "", "Error", export_images(sent), sent)
    /\ entries' = [u \in {} |-> None]
    /\ UNCHANGED <<now, pc, req, exp>>

\* client.export_images returned Err for what its request came to (sent):
\* the handler returns a tool error made of it
ExportFail(sent) ==
    /\ exp.pc = "idle"
    /\ export_images(sent).kind = "Err"
    /\ last' = Outcome("export_images", "response", "", "Error", export_images(sent), sent)
    /\ UNCHANGED <<entries, now, pc, req, exp>>

\* client.export_images returned Ok with an "images" object (node id -> url
\* or null): the handler resumes with its arguments and enters the loop; the
\* step records the request and the images as arg
ExportOk(file_key, format, scale, images) ==
    /\ exp.pc = "idle"
    /\ exp' = [pc |-> "registering", file_key |-> file_key,
               format |-> unwrap_or(format, "png"),
               scale |-> unwrap_or(scale, ScaleOne), images |-> images,
               result |-> images]
    /\ last' = Outcome("export_images", "response", "", "Pending", None,
                       [file_key |-> file_key, format |-> format, scale |-> scale,
                        images |-> images])
    /\ UNCHANGED <<entries, now, pc, req>>

\* ExportRegister that visits the pair without calling register_export
ExportRegister_drops_pair ==
    /\ exp.pc = "registering"
    /\ exp.images # <<>>
    /\ can_write
    /\ last' = Outcome("register_export", "",
                       generate_uri(exp.file_key, Head(exp.images)[1], exp.format, exp.scale),
                       "Skipped", None, None)
    /\ exp' = [exp EXCEPT !.images = Tail(exp.images)]
    /\ UNCHANGED <<entries, now, pc, req>>

\* one iteration of the loop over the images: register_export for a string url
ExportRegister ==
    /\ exp.pc = "registering"
    /\ exp.images # <<>>
    /\ can_write
    /\ LET node_id == Head(exp.images)[1]
           url == Head(exp.images)[2]
           uri == generate_uri(exp.file_key, node_id, exp.format, exp.scale) IN
         IF url # Null
         THEN /\ entries' = register_export(entries, exp.file_key, node_id,
                                            exp.format, exp.scale, url, now)
              /\ last' = Outcome("register_export", "", uri, "Ok", Displaced(uri),
                                 Inputs(exp.file_key, node_id, exp.format, exp.scale, url))
         ELSE /\ last' = Outcome("register_export", "", uri, "Skipped", None, None)
              /\ UNCHANGED entries
    /\ exp' = [exp EXCEPT !.images = Tail(exp.images)]
    /\ UNCHANGED <<now, pc, req>>

\* ExportRegisterErr with the error propagated by "?": the handler returns it
ExportRegisterErr_propagates ==
    /\ exp.pc = "registering"
    /\ exp.images # <<>>
    /\ Head(exp.images)[2] # Null
    /\ last' = Outcome("export_images", "return", "", "Error", None, None)
    /\ exp' = NoExport
    /\ UNCHANGED <<entries, now, pc, req>>

\* one iteration of the loop in which register_export returns Err (its only
\* error is a poisoned RwLock, before the insert); "let _ =" drops the Err
ExportRegisterErr ==
    /\ exp.pc = "registering"
    /\ exp.images # <<>>
    /\ Head(exp.images)[2] # Null
    /\ last' = Outcome("register_export", "",
                       generate_uri(exp.file_key, Head(exp.images)[1], exp.format, exp.scale),
                       "Err", None,
                       Inputs(exp.file_key, Head(exp.images)[1], exp.format, exp.scale,
                              Head(exp.images)[2]))
    /\ exp' = [exp EXCEPT !.images = Tail(exp.images)]
    /\ UNCHANGED <<entries, now, pc, req>>

\* after the loop the handler returns the payload as a success; the step
\* records the payload as ret and the arguments of the registrations as arg
ExportReturn ==
    /\ exp.pc = "registering"
    /\ exp.images = <<>>
    /\ exp' = NoExport
    /\ last' = Outcome("export_images", "return", "", "Ok", exp.result,
                       [file_key |-> exp.file_key, format |-> exp.format,
                        scale |-> exp.scale])
    /\ UNCHANGED <<entries, now, pc, req>>

\* the images objects the gateway can return for the node ids, in key order
RECURSIVE ImageLists(_)
ImageLists(i) ==
    IF i > Len(NodeIdSeq) THEN {<<>>}
    ELSE LET rest == ImageLists(i + 1) IN
           rest \cup {<<(<<NodeIdSeq[i], u>>)>> \o r : u \in Urls \cup {Null}, r \in rest}

(* ---------------------------------------------------------------------- *)
(* FigmaUrlParser. A URL string is the sequence of its characters.         *)
(* ---------------------------------------------------------------------- *)
Upper == <<"A", "B", "C", "D", "E", "F", "G", "H", "I", "J", "K", "L", "M", "N", "O", "P", "Q", "R", "S", "T", "U", "V", "W", "X", "Y", "Z">>
Lower == <<"a", "b", "c", "d", "e", "f", "g", "h", "i", "j", "k", "l", "m", "n", "o", "p", "q", "r", "s", "t", "u", "v", "w", "x", "y", "z">>
Digits == {"0", "1", "2", "3", "4", "5", "6", "7", "8", "9"}

is_ascii_alphabetic(c) == \E i \in 1..26 : c = Upper[i] \/ c = Lower[i]
is_ascii_alphanumeric(c) == is_ascii_alphabetic(c) \/ c \in Digits
to_ascii_lowercase(c) ==
    IF \E i \in 1..26 : c = Upper[i]
    THEN Lower[CHOOSE i \in 1..26 : c = Upper[i]]
    ELSE c
to_lowercase(s) == [i \in 1..Len(s) |-> to_ascii_lowercase(s[i])]

Max(S) == CHOOSE x \in S : \A y \in S : y <= x

\* lit occurs in s at position i
at(s, i, lit) ==
    /\ i >= 1
    /\ i + Len(lit) - 1 <= Len(s)
    /\ SubSeq(s, i, i + Len(lit) - 1) = lit

\* the first position from i on whose character is in set, Len(s) + 1 if none
find(s, i, set) ==
    IF \E j \in i..Len(s) : s[j] \in set
    THEN CHOOSE j \in i..Len(s) : s[j] \in set /\ \A k \in i..(j - 1) : s[k] \notin set
    ELSE Len(s) + 1

\* the first position from i on whose character is not alphanumeric
end_of_alphanumeric(s, i) ==
    IF \E j \in i..Len(s) : ~is_ascii_alphanumeric(s[j])
    THEN CHOOSE j \in i..Len(s) :
            /\ ~is_ascii_alphanumeric(s[j])
            /\ \A k \in i..(j - 1) : is_ascii_alphanumeric(s[k])
    ELSE Len(s) + 1

\* The inputs: every concatenation of one scheme part, one host part, one
\* path part and one query part.
\*   scheme parts: "https://", "http://", "HTTPS://", "ftp://", "mailto:", ""
\*   host parts:   "figma.com", "www.figma.com", "example.com", "notfigma.com", "WWW.figma.com", "figma.com:8080", "user@figma.com"
\*   path parts:   "", "/file/ABC123", "/design/Aa1Bb2/my-design", "/files/project/123", "/file/ABC-123", "/proto/file/ABC123", "/file/"
\*   query parts:  "", "?node-id=1%3A2", "?node-id=3-4&t=x", "?t=x&node-id=7", "?my-node-id=5", "?node-id=1&node-id=2", "#a?node-id=3", "?node-id=9#frag", "?node-id=&t=x"
SchemeParts ==
    { <<"h", "t", "t", "p", "s", ":", "/", "/">>,
      <<"h", "t", "t", "p", ":", "/", "/">>,
      <<"H", "T", "T", "P", "S", ":", "/", "/">>,
      <<"f", "t", "p", ":", "/", "/">>,
      <<"m", "a", "i", "l", "t", "o", ":">>,
      <<>> }
HostParts ==
    { <<"f", "i", "g", "m", "a", ".", "c", "o", "m">>,
      <<"w", "w", "w", ".", "f", "i", "g", "m", "a", ".", "c", "o", "m">>,
      <<"e", "x", "a", "m", "p", "l", "e", ".", "c", "o", "m">>,
      <<"n", "o", "t", "f", "i", "g", "m", "a", ".", "c", "o", "m">>,
      <<"W", "W", "W", ".", "f", "i", "g", "m", "a", ".", "c", "o", "m">>,
      <<"f", "i", "g", "m", "a", ".", "c", "o", "m", ":", "8", "0", "8", "0">>,
      <<"u", "s", "e", "r", "@", "f", "i", "g", "m", "a", ".", "c", "o", "m">> }
PathParts ==
    { <<>>,
      <<"/", "f", "i", "l", "e", "/", "A", "B", "C", "1", "2", "3">>,
      <<"/", "d", "e", "s", "i", "g", "n", "/", "A", "a", "1", "B", "b", "2", "/", "m", "y", "-", "d", "e", "s", "i", "g", "n">>,
      <<"/", "f", "i", "l", "e", "s", "/", "p", "r", "o", "j", "e", "c", "t", "/", "1", "2", "3">>,
      <<"/", "f", "i", "l", "e", "/", "A", "B", "C", "-", "1", "2", "3">>,
      <<"/", "p", "r", "o", "t", "o", "/", "f", "i", "l", "e", "/", "A", "B", "C", "1", "2", "3">>,
      <<"/", "f", "i", "l", "e", "/">> }
QueryParts ==
    { <<>>,
      <<"?", "n", "o", "d", "e", "-", "i", "d", "=", "1", "%", "3", "A", "2">>,
      <<"?", "n", "o", "d", "e", "-", "i", "d", "=", "3", "-", "4", "&", "t", "=", "x">>,
      <<"?", "t", "=", "x", "&", "n", "o", "d", "e", "-", "i", "d", "=", "7">>,
      <<"?", "m", "y", "-", "n", "o", "d", "e", "-", "i", "d", "=", "5">>,
      <<"?", "n", "o", "d", "e", "-", "i", "d", "=", "1", "&", "n", "o", "d", "e", "-", "i", "d", "=", "2">>,
      <<"#", "a", "?", "n", "o", "d", "e", "-", "i", "d", "=", "3">>,
      <<"?", "n", "o", "d", "e", "-", "i", "d", "=", "9", "#", "f", "r", "a", "g">>,
      <<"?", "n", "o", "d", "e", "-", "i", "d", "=", "&", "t", "=", "x">> }
UrlInputs ==
    {sp \o hp \o pp \o qp : sp \in SchemeParts, hp \in HostParts,
                            pp \in PathParts, qp \in QueryParts}

\* url::Url::parse, as far as the host it reports is concerned: the scheme up
\* to the first ":", for http, https, ftp, ws and wss the authority after the
\* slashes up to "/", "?" or "#", without userinfo and port, in lower case;
\* any other scheme has a host only after "//". No percent-decoding and no
\* IDNA: the inputs have neither.
SpecialSchemes == {<<"h", "t", "t", "p">>, <<"h", "t", "t", "p", "s">>, <<"f", "t", "p">>, <<"w", "s">>, <<"w", "s", "s">>}
is_scheme_char(c) == is_ascii_alphanumeric(c) \/ c \in {"+", "-", "."}

url_authority(input, start, special) ==
    LET stop == find(input, start, {"/", "?", "#"})
        authority == SubSeq(input, start, stop - 1)
        ats == {i \in 1..Len(authority) : authority[i] = "@"}
        hostport == IF ats = {} THEN authority
                    ELSE SubSeq(authority, Max(ats) + 1, Len(authority))
        colon == find(hostport, 1, {":"})
        host == SubSeq(hostport, 1, colon - 1)
        port == SubSeq(hostport, colon + 1, Len(hostport))
    IN  IF \E i \in 1..Len(port) : port[i] \notin Digits
        THEN Err("UrlParse", "invalid port number")
        ELSE IF special /\ host = <<>>
        THEN Err("UrlParse", "empty host")
        ELSE Ok([host |-> Some(IF special THEN to_lowercase(host) ELSE host)])

url_parse(input) ==
    LET colon == find(input, 1, {":"}) IN
      IF \/ colon > Len(input)
         \/ colon = 1
         \/ ~is_ascii_alphabetic(input[1])
         \/ \E i \in 1..(colon - 1) : ~is_scheme_char(input[i])
      THEN Err("UrlParse", "relative URL without a base")
      ELSE IF to_lowercase(SubSeq(input, 1, colon - 1)) \in SpecialSchemes
      THEN url_authority(input, CHOOSE j \in (colon + 1)..(Len(input) + 1) :
                                   /\ j > Len(input) \/ input[j] # "/"
                                   /\ \A k \in (colon + 1)..(j - 1) : input[k] = "/",
                         TRUE)
      ELSE IF at(input, colon + 1, <<"/", "/">>)
      THEN url_authority(input, colon + 3, FALSE)
      ELSE Ok([host |-> None])

\* matches!(url.host_str(), Some("figma.com") | Some("www.figma.com")) with
\* the host ending in "figma.com"
is_figma_url_ends_with(url) ==
    /\ url.host # None
    /\ Len(url.host[1]) >= 9
    /\ SubSeq(url.host[1], Len(url.host[1]) - 8, Len(url.host[1])) = <<"f", "i", "g", "m", "a", ".", "c", "o", "m">>

is_figma_url(url) == url.host \in {Some(<<"f", "i", "g", "m", "a", ".", "c", "o", "m">>), Some(<<"w", "w", "w", ".", "f", "i", "g", "m", "a", ".", "c", "o", "m">>)}

File(file_id, node_id) == [kind |-> "File", file_id |-> file_id, node_id |-> node_id]
Unknown == [kind |-> "Unknown"]

\* file_regex.captures(text): None, or the groups 1 and 2 of the leftmost
\* match of
\*   ^https?://(?:www\.)?figma\.com/(?:file|design)/([A-Za-z0-9]+)
\*       (?:/[^?]*)?(?:\?.*node-id=([^&]+))?
\* Every quantifier is greedy: group 1 is the longest alphanumeric run, the
\* path part runs to the first "?", and ".*" makes "node-id=" the last
\* occurrence after that "?" that has a character other than "&" behind it.
\* one piece of the pattern matched at position p of text: the position
\* behind it, 0 when the match has failed (here or before)
match_lit(text, p, lit) == IF p > 0 /\ at(text, p, lit) THEN p + Len(lit) ELSE 0
match_opt(text, p, lit) == IF p > 0 /\ at(text, p, lit) THEN p + Len(lit) ELSE p
match_alt(text, p, a, b) ==
    IF p > 0 /\ at(text, p, a) THEN p + Len(a)
    ELSE IF p > 0 /\ at(text, p, b) THEN p + Len(b)
    ELSE 0

\* the position behind "^https?://(?:www\.)?figma\.com/(?:file|design)/"
group_1_start(text) ==
    match_lit(text,
      match_alt(text,
        match_lit(text,
          match_opt(text,
            match_lit(text,
              match_opt(text,
                match_lit(text, 1, <<"h", "t", "t", "p">>),
                <<"s">>),
              <<":", "/", "/">>),
            <<"w", "w", "w", ".">>),
          <<"f", "i", "g", "m", "a", ".", "c", "o", "m", "/">>),
        <<"f", "i", "l", "e">>, <<"d", "e", "s", "i", "g", "n">>),
      <<"/">>)

\* the positions behind the "?" at qm where "node-id=" stands with a
\* character other than "&" behind it
node_id_starts(text, qm) ==
    IF at(text, qm, <<"?">>)
    THEN {k \in (qm + 1)..Len(text) :
            /\ at(text, k, <<"n", "o", "d", "e", "-", "i", "d", "=">>)
            /\ k + 8 <= Len(text)
            /\ text[k + 8] # "&"}
    ELSE {}

group_2(text, K) ==
    IF K = {} THEN None
    ELSE Some(SubSeq(text, Max(K) + 8, find(text, Max(K) + 8, {"&"}) - 1))

\* the groups when group 1 starts at p6 and ends before e
groups(text, p6, e) ==
    IF p6 = 0 \/ e = p6
    THEN None
    ELSE Some([file_id |-> SubSeq(text, p6, e - 1),
               node_id |-> group_2(text,
                             node_id_starts(text,
                               IF at(text, e, <<"/">>)
                               THEN find(text, e + 1, {"?"}) ELSE e))])

captures_from(text, p6) ==
    groups(text, p6, IF p6 > 0 THEN end_of_alphanumeric(text, p6) ELSE 0)

captures(text) == captures_from(text, group_1_start(text))

parse(url_str) ==
    LET url == url_parse(url_str) IN
      IF url.kind = "Err"
      THEN url
      ELSE IF ~is_figma_url(url.value)
      THEN Err("InvalidUrl", <<"Not a Figma URL: ", url_str>>)
      ELSE Ok([url_type |-> IF captures(url_str) # None
                            THEN File(captures(url_str)[1].file_id,
                                      captures(url_str)[1].node_id)
                            ELSE Unknown,
               original_url |-> url_str])

\* extract_file_id that answers an Unknown URL with an empty file id
extract_file_id_lenient(url_str) ==
    LET info == parse(url_str) IN
      IF info.kind = "Err"
      THEN info
      ELSE IF info.value.url_type.kind = "File"
      THEN Ok(info.value.url_type.file_id)
      ELSE Ok(<<>>)

extract_file_id(url_str) ==
    LET info == parse(url_str) IN
      IF info.kind = "Err"
      THEN info
      ELSE IF info.value.url_type.kind = "File"
      THEN Ok(info.value.url_type.file_id)
      ELSE Err("InvalidUrl", <<"URL is not a file URL: ", url_str>>)

\* the state in which the parser is about to be called with url_str
UrlInit ==
    /\ entries = [u \in {} |-> None]
    /\ now = 0
    /\ pc = [t \in Tasks |-> "idle"]
    /\ req = [t \in Tasks |-> NoReq]
    /\ exp = NoExport
    /\ \E url_str \in UrlInputs : last = Outcome("input", "", "", "Ok", None, url_str)

Parse ==
    /\ last.op \in {"input", "parse", "extract_file_id"}
    /\ last' = Outcome("parse", "", "", parse(last.arg).kind, parse(last.arg), last.arg)
    /\ UNCHANGED <<entries, now, pc, req, exp>>

ExtractFileId ==
    /\ last.op \in {"input", "parse", "extract_file_id"}
    /\ last' = Outcome("extract_file_id", "", "", extract_file_id(last.arg).kind,
                       extract_file_id(last.arg), last.arg)
    /\ UNCHANGED <<entries, now, pc, req, exp>>

\* the images objects the gateway can return for an export of several nodes
RECURSIVE ExportImageLists(_)
ExportImageLists(i) ==
    IF i > Len(ExportNodeIdSeq) THEN {<<>>}
    ELSE LET rest == ExportImageLists(i + 1) IN
           rest \cup {<<(<<ExportNodeIdSeq[i], u>>)>> \o r : u \in Urls \cup {Null}, r \in rest}

(* ---------------------------------------------------------------------- *)
(* Specifications                                                          *)
(*   Spec        the server: its handlers and the clock                    *)
(*   CacheSpec   the cache called directly through its public methods      *)
(*   ExportSpec  export_images of several nodes, with register_export      *)
(*               allowed to return Err                                     *)
(*   GatewaySpec the four request methods of FigmaClient applied to the    *)
(*               outcomes of their request                                 *)
(*   UrlSpec     FigmaUrlParser applied to the URL strings of UrlInputs    *)
(* ---------------------------------------------------------------------- *)
ClockNext ==
    \/ \E c \in ClockValues : Tick(c)
    \/ \E c \in ClockValues : ClockSetBack(c)

OptFormats == {None} \cup {Some(x) : x \in Formats}
OptScales == {None} \cup {Some(x) : x \in ExportScales}

Next ==
    \/ ClockNext
    \/ \E sent \in {TransportError} : ExportFail(sent)
    \/ \E f \in FileKeys, fm \in OptFormats, s \in OptScales, images \in ImageLists(1) :
          ExportOk(f, fm, s, images)
    \/ ExportRegister
    \/ ExportReturn
    \/ ListResources
    \/ \E t \in Tasks, uri \in ReadUris : ReadLookup(t, uri)
    \/ \E t \in Tasks, r \in {"transport_error", "http_error", "response"} : ReadSend(t, r)
    \/ \E t \in Tasks : ReadBodyError(t)
    \/ \E t \in Tasks, data \in Bodies : ReadBody(t, data)
    \/ \E t \in Tasks : ReadAbandon(t)

Spec == Init /\ [][Next]_vars

CacheNext ==
    \/ ClockNext
    \/ \E f \in FileKeys, n \in NodeIds, fm \in Formats, s \in Scales, u \in Urls :
          RegisterExport(f, n, fm, s, u)
    \/ \E uri \in ReadUris : GetEntry(uri)
    \/ ListAll
    \/ \E uri \in ReadUris, data \in Bodies : UpdateCachedData(uri, data)
    \/ \E uri \in ReadUris : IsExpired(uri)

CacheSpec == Init /\ [][CacheNext]_vars

ExportNext ==
    \/ ClockNext
    \/ \E sent \in ExportFailures : ExportFail(sent)
    \/ \E f \in FileKeys, fm \in OptFormats, s \in OptScales, images \in ExportImageLists(1) :
          ExportOk(f, fm, s, images)
    \/ ExportRegister
    \/ ExportRegisterErr
    \/ ExportReturn
    \/ ListResources

ExportSpec == Init /\ [][ExportNext]_vars

GatewayNext ==
    \/ \E sent \in SendOutcomes : GetFile(sent)
    \/ \E sent \in SendOutcomes : GetFileNodes(sent)
    \/ \E sent \in SendOutcomes : ExportImages(sent)
    \/ \E sent \in SendOutcomes : GetMe(sent)

GatewaySpec == Init /\ [][GatewayNext]_vars

UrlNext ==
    \/ Parse
    \/ ExtractFileId

UrlSpec == UrlInit /\ [][UrlNext]_vars

(* ---------------------------------------------------------------------- *)
(* Properties                                                              *)
(* ---------------------------------------------------------------------- *)
Millis(secs) == secs * MillisPerSec
InFlight(u) == \E t \in Tasks : pc[t] # "idle" /\ req[t].uri = u
IsRead(o) == o.op = "read_resource"
IsRegistration(o, u) == o.op = "register_export" /\ o.status = "Ok" /\ o.uri = u

\* C1: a get_entry that directly follows register_export, on the URI it
\* returned, yields a present entry that has the file_key, node_id, format,
\* scale and figma_url of the call and no cached_data.
C1_RegisterThenGetEntry ==
    [][(last.op = "register_export" /\ last.status = "Ok"
          /\ last'.op = "get_entry" /\ last'.uri = last.uri)
       => /\ last'.ret # None
          /\ last'.ret[1].file_key = last.arg.file_key
          /\ last'.ret[1].node_id = last.arg.node_id
          /\ last'.ret[1].format = last.arg.format
          /\ last'.ret[1].scale = last.arg.scale
          /\ last'.ret[1].figma_url = last.arg.figma_url
          /\ last'.ret[1].cached_data = None]_vars

C1_Witness ==
    /\ last.op = "get_entry"
    /\ last.uri = generate_uri("ABC123", "1:2", "png", 25)
    /\ last.ret # None
    /\ last.ret[1].scale = 25
    /\ last.ret[1].figma_url = "https://x/z"
    /\ last.ret[1].cached_data = None
    /\ last.ret[1].export_time = now

\* C2: a registration under a URI whose entry has cached_data leaves the
\* entry without cached_data and with export_time equal to the clock of the
\* registration.
C2_ReRegisterResets ==
    [][(last'.op = "register_export" /\ last'.status = "Ok"
          /\ last'.uri \in DOMAIN entries
          /\ entries[last'.uri].cached_data # None)
       => /\ entries'[last'.uri].cached_data = None
          /\ entries'[last'.uri].export_time = now]_vars

C2_Witness ==
    /\ last.op = "register_export"
    /\ last.status = "Ok"
    /\ last.ret # None
    /\ last.ret[1].cached_data = Some(<<137, 80>>)
    /\ last.ret[1].export_time < now
    /\ entries[last.uri].cached_data = None
    /\ entries[last.uri].export_time = now

\* C3: a read that finds cached_data in the entry it looks up returns exactly
\* those bytes in that same step: no task starts a download, nothing in the
\* cache changes, and the age of the entry plays no part.
C3_CachedRead ==
    [][(IsRead(last') /\ last'.step = "lookup"
          /\ last'.uri \in DOMAIN entries
          /\ entries[last'.uri].cached_data # None)
       => /\ last'.status = "Ok"
          /\ last'.ret = entries[last'.uri].cached_data[1]
          /\ UNCHANGED <<entries, pc, req>>]_vars

C3_Witness ==
    /\ IsRead(last)
    /\ last.step = "lookup"
    /\ last.status = "Ok"
    /\ last.uri \in DOMAIN entries
    /\ entries[last.uri].cached_data = Some(last.ret)
    /\ now - entries[last.uri].export_time > Millis(TTL_SECS)

\* C4: a read whose download succeeds returns the downloaded bytes and leaves
\* them as the entry's cached_data; and while an entry has cached_data and no
\* other read of its URI is in flight, every step other than a registration
\* of that URI keeps the cached_data, and every read of the URI returns it
\* from the lookup, without a download.
C4_DownloadThenCached ==
    [][/\ (IsRead(last') /\ last'.step = "body" /\ last'.status = "Ok")
          => /\ last'.uri \in DOMAIN entries'
             /\ entries'[last'.uri].cached_data = Some(last'.ret)
       /\ \A u \in DOMAIN entries :
            (entries[u].cached_data # None /\ ~InFlight(u) /\ ~IsRegistration(last', u))
            => /\ entries'[u].cached_data = entries[u].cached_data
               /\ (IsRead(last') /\ last'.uri = u)
                  => /\ last'.step = "lookup"
                     /\ last'.status = "Ok"
                     /\ last'.ret = entries[u].cached_data[1]
                     /\ pc' = pc]_vars

C4_Witness ==
    /\ IsRead(last)
    /\ last.step = "body"
    /\ last.status = "Ok"
    /\ last.ret = <<137, 80>>
    /\ entries[last.uri].cached_data = Some(<<137, 80>>)
    /\ ~is_expired(entries[last.uri], now)
    /\ ~InFlight(last.uri)

\* C5: a read that looks up an entry without cached_data for which is_expired
\* holds returns the Expired error in that step: no task starts a download
\* and the cache is unchanged.
C5_ExpiredRead ==
    [][(IsRead(last') /\ last'.step = "lookup"
          /\ last'.uri \in DOMAIN entries
          /\ entries[last'.uri].cached_data = None
          /\ is_expired(entries[last'.uri], now))
       => /\ last'.status = "Expired"
          /\ UNCHANGED <<entries, pc, req>>]_vars

C5_Witness ==
    /\ IsRead(last)
    /\ last.step = "lookup"
    /\ last.status = "Expired"
    /\ entries[last.uri].cached_data = None
    /\ now - entries[last.uri].export_time > Millis(TTL_SECS)

\* C6: once more than 3600 seconds separate the clock from the export_time of
\* an entry without cached_data, no step gives the entry cached_data and no
\* read of its URI returns bytes, unless the step registers the URI again.
C6_NoMaterializationAfterTtl ==
    [][\A u \in DOMAIN entries :
         (entries[u].cached_data = None
            /\ now - entries[u].export_time > Millis(TTL_SECS)
            /\ ~IsRegistration(last', u))
         => /\ entries'[u].cached_data = None
            /\ ~(IsRead(last') /\ last'.uri = u /\ last'.status = "Ok")]_vars

\* C7: an entry gets cached_data, where it had none or did not exist, only in
\* the step in which a read of its URI completes its download with success,
\* and the cached_data is then what that read returns.
C7_MaterializedOnlyByDownload ==
    [][\A u \in DOMAIN entries' :
         ((u \notin DOMAIN entries \/ entries[u].cached_data = None)
            /\ entries'[u].cached_data # None)
         => /\ IsRead(last')
            /\ last'.step = "body"
            /\ last'.status = "Ok"
            /\ last'.uri = u
            /\ entries'[u].cached_data = Some(last'.ret)]_vars

C7_Witness ==
    /\ IsRead(last)
    /\ last.step = "body"
    /\ last.status = "Ok"
    /\ last.ret = <<>>
    /\ entries[last.uri].cached_data = Some(<<>>)

\* C8: a read that fails in its download (transport error, non-success
\* status, failure reading the body) returns a download error and leaves the
\* whole map as it was, so an entry without cached_data stays without.
C8_FailedDownloadFrame ==
    [][(IsRead(last') /\ last'.arg \in DownloadFailures)
       => /\ last'.status = "DownloadError"
          /\ last'.step \in {"send", "body"}
          /\ entries' = entries]_vars

C8_Witness ==
    /\ IsRead(last)
    /\ last.status = "DownloadError"
    /\ last.arg = "body_error"
    /\ last.uri \in DOMAIN entries
    /\ entries[last.uri].cached_data = None

\* C9: a read of a URI that is not a key of the map returns NotFound in the
\* lookup step: no task starts a download and the map is unchanged, so the
\* URI is still not a key.
C9_UnknownRead ==
    [][(IsRead(last') /\ last'.step = "lookup" /\ last'.uri \notin DOMAIN entries)
       => /\ last'.status = "NotFound"
          /\ UNCHANGED <<entries, pc, req>>]_vars

C9_Witness ==
    /\ IsRead(last)
    /\ last.status = "NotFound"
    /\ last.uri \notin DOMAIN entries
    /\ DOMAIN entries # {}

\* C10: update_cached_data for a URI that is not a key of the map returns
\* NotFound and leaves the map unchanged.
C10_UpdateUnknown ==
    [][(last'.op = "update_cached_data" /\ last'.uri \notin DOMAIN entries)
       => /\ last'.status = "NotFound"
          /\ entries' = entries]_vars

C10_Witness ==
    /\ last.op = "update_cached_data"
    /\ last.status = "NotFound"
    /\ last.uri \notin DOMAIN entries
    /\ Cardinality(DOMAIN entries) = 2

\* C11: is_expired returns true exactly when more than 3600 seconds separate
\* the clock from the entry's export_time, fractions of a second included, or
\* when the clock is behind export_time; so it returns false at an elapsed
\* time of 0 and of exactly 3600 seconds and true at 3600.5 seconds.
C11_ExpiredExactlyAboveTtl ==
    (last.op = "is_expired")
    => (last.ret <=> (now < entries[last.uri].export_time
                        \/ now - entries[last.uri].export_time > Millis(TTL_SECS)))

\* C12: no cache lock is held across network I/O. While reads are suspended
\* in their download no task holds a guard, and a register_export, get_entry,
\* list_all or update_cached_data issued by another task can take the lock
\* and complete, through the cache API or through the handlers (the loop of
\* export_images, the lookup of another read, list_resources, the persist
\* step of a read whose body has arrived).
C12_NoLockAcrossDownload ==
    (\E t \in Tasks : pc[t] \in {"sending", "body"})
    => /\ \A t \in Tasks : req[t].guard = "none"
       /\ \A f \in FileKeys, n \in NodeIds, fm \in Formats, s \in Scales, u \in Urls :
             ENABLED RegisterExport(f, n, fm, s, u)
       /\ \A uri \in ReadUris : ENABLED GetEntry(uri)
       /\ ENABLED ListAll
       /\ \A uri \in ReadUris, data \in Bodies : ENABLED UpdateCachedData(uri, data)
       /\ ENABLED ListResources
       /\ \A t \in Tasks : pc[t] = "idle" => \A uri \in ReadUris : ENABLED ReadLookup(t, uri)
       /\ \A t \in Tasks : pc[t] = "body" => \A data \in Bodies : ENABLED ReadBody(t, data)
       /\ (exp.pc = "registering" /\ exp.images # <<>>) => ENABLED ExportRegister

\* a registration completed while one read waits for its response and
\* another for its body
C12_Witness ==
    /\ last.op = "register_export" /\ last.status = "Ok"
    /\ \E t1, t2 \in Tasks : /\ pc[t1] = "sending" /\ req[t1].uri = last.uri
                             /\ pc[t2] = "body" /\ req[t2].uri = last.uri

\* C13: two concurrent reads of the same unexpired entry without cached_data
\* can both pass the lookup and both download; each persist replaces what
\* the entry holds, so after both the entry has the bytes of the
\* update_cached_data that ran last.
C13_LastPersistWins ==
    [][(IsRead(last') /\ last'.step = "body" /\ last'.status = "Ok"
          /\ last'.uri \in DOMAIN entries)
       => entries'[last'.uri].cached_data = Some(last'.ret)]_vars

\* a second download has just replaced the different bytes of the first
C13_Witness ==
    /\ IsRead(last) /\ last.step = "body" /\ last.status = "Ok"
    /\ last.arg # None /\ last.arg # Some(last.ret)
    /\ entries[last.uri].cached_data = Some(last.ret)

\* C14: entry updates are atomic for readers. A registration step leaves
\* under its URI the entry built from that one call in all fields together
\* and touches no other entry; every other step changes at most cached_data
\* of an entry; get_entry and list_all return the entries as they are in the
\* map. So a returned entry is one registration's value, possibly with
\* cached_data set by later update_cached_data calls, never a mix of two.
WithoutData(entry) == [entry EXCEPT !.cached_data = None]

C14_AtomicEntries ==
    [][/\ (last'.op = "register_export" /\ last'.status = "Ok")
          => /\ DOMAIN entries' = DOMAIN entries \cup {last'.uri}
             /\ entries'[last'.uri]
                  = ImageEntry(last'.arg.file_key, last'.arg.node_id, last'.arg.format,
                               last'.arg.scale, last'.arg.figma_url, None, now)
             /\ \A u \in DOMAIN entries \ {last'.uri} : entries'[u] = entries[u]
       /\ ~(last'.op = "register_export" /\ last'.status = "Ok")
          => /\ DOMAIN entries' = DOMAIN entries
             /\ \A u \in DOMAIN entries : WithoutData(entries'[u]) = WithoutData(entries[u])
       /\ (last'.op = "get_entry")
          => last'.ret = (IF last'.uri \in DOMAIN entries'
                          THEN Some(entries'[last'.uri]) ELSE None)
       /\ (last'.op = "list_all")
          => last'.ret = {<<u, entries'[u]>> : u \in DOMAIN entries'}]_vars

\* a registration has just replaced a materialized entry of another scale
\* and another URL under the same URI
C14_Witness ==
    /\ last.op = "register_export" /\ last.status = "Ok"
    /\ last.ret # None
    /\ last.ret[1].scale # last.arg.scale
    /\ last.ret[1].figma_url # last.arg.figma_url
    /\ last.ret[1].cached_data # None
    /\ entries[last.uri].scale = last.arg.scale
    /\ entries[last.uri].figma_url = last.arg.figma_url

\* C15: last write wins. After a register_export the map holds exactly one
\* entry under the URI, with the figma_url of that call, export_time equal
\* to the clock of that call and no cached_data; until the next registration
\* of the URI its figma_url and export_time stay, and cached_data changes
\* only by update_cached_data.
C15_LastWriteWins ==
    [][/\ (last'.op = "register_export" /\ last'.status = "Ok")
          => /\ Cardinality({r \in list_all(entries') : r[1] = last'.uri}) = 1
             /\ entries'[last'.uri].figma_url = last'.arg.figma_url
             /\ entries'[last'.uri].export_time = now
             /\ entries'[last'.uri].cached_data = None
       /\ \A u \in DOMAIN entries :
            ~IsRegistration(last', u)
            => /\ u \in DOMAIN entries'
               /\ entries'[u].figma_url = entries[u].figma_url
               /\ entries'[u].export_time = entries[u].export_time
               /\ (entries'[u].cached_data # entries[u].cached_data
                   => last'.op = "update_cached_data" /\ last'.uri = u)]_vars

\* a second registration with the same file_key, node_id, format and scale,
\* at a later instant and with another URL, has just replaced the first
C15_Witness ==
    /\ last.op = "register_export" /\ last.status = "Ok"
    /\ last.ret # None
    /\ last.ret[1].scale = last.arg.scale
    /\ last.ret[1].figma_url # last.arg.figma_url
    /\ last.ret[1].export_time < now
    /\ entries[last.uri].figma_url = last.arg.figma_url
    /\ entries[last.uri].export_time = now

\* C16: entries are never removed. Every step keeps every URI of the map,
\* so get_entry on a URI that was present stays present, and a read of it is
\* never answered "not found": also when the entry has expired, after failed
\* reads and after re-registration.
C16_NeverRemoved ==
    [][/\ DOMAIN entries \subseteq DOMAIN entries'
       /\ \A u \in DOMAIN entries : get_entry(entries', u) # None
       /\ (IsRead(last') /\ last'.step = "lookup" /\ last'.uri \in DOMAIN entries)
          => last'.status # "NotFound"]_vars

\* a read has just been refused for expiry and the entry is still in the map
C16_Witness ==
    /\ IsRead(last) /\ last.step = "lookup" /\ last.status = "Expired"
    /\ get_entry(entries, last.uri) # None
    /\ is_expired(get_entry(entries, last.uri)[1], now)

C18_BestEffortRegistration ==
    [][/\ (exp.pc = "registering")
          => \/ exp' = exp
             \/ /\ exp.images # <<>>
                /\ last'.op = "register_export"
                /\ last'.status \in {"Ok", "Err", "Skipped"}
                /\ exp' = [exp EXCEPT !.images = Tail(exp.images)]
             \/ /\ exp.images = <<>>
                /\ last'.op = "export_images" /\ last'.step = "return"
                /\ last'.status = "Ok"
                /\ last'.ret = exp.result
                /\ exp' = NoExport
       /\ (last'.op = "export_images" /\ last'.step = "response" /\ last'.status = "Pending")
          => /\ exp'.pc = "registering"
             /\ exp'.result = last'.arg.images
             /\ exp'.images = last'.arg.images
       /\ (last'.op = "register_export" /\ last'.status = "Err")
          => entries' = entries]_vars

\* an export of two nodes with urls has returned its payload as a success
\* although one of the two registrations failed: one URI has its entry, the
\* other has none
C18_Witness ==
    /\ last.op = "export_images" /\ last.step = "return" /\ last.status = "Ok"
    /\ Len(last.ret) = 2
    /\ \E i, j \in 1..2 :
          /\ last.ret[i][2] # Null /\ last.ret[j][2] # Null
          /\ generate_uri(last.arg.file_key, last.ret[i][1], last.arg.format, last.arg.scale)
                \notin DOMAIN entries
          /\ LET u == generate_uri(last.arg.file_key, last.ret[j][1],
                                   last.arg.format, last.arg.scale) IN
               u \in DOMAIN entries /\ entries[u].figma_url = last.ret[j][2]

\* C19: a read abandoned while it sends the download request or while it
\* reads the response body leaves no effect in the cache: the step changes no
\* entry and adds or removes none, no task holds a guard afterwards, the
\* abandoned task is idle again and every other task and the export handler
\* are where they were.
C19_AbandonLeavesNoEffect ==
    [][(IsRead(last') /\ last'.step = "abandon")
       => /\ entries' = entries
          /\ exp' = exp
          /\ \A t \in Tasks : req'[t].guard = "none"
          /\ \E t \in Tasks :
                /\ pc[t] \in {"sending", "body"} /\ req[t].uri = last'.uri
                /\ pc'[t] = "idle" /\ req'[t] = NoReq
                /\ \A o \in Tasks \ {t} : pc'[o] = pc[o] /\ req'[o] = req[o]]_vars

\* a read of an entry without cached_data has just been abandoned while
\* another read of the same URI is still waiting for its body
C19_Witness ==
    /\ IsRead(last) /\ last.step = "abandon"
    /\ last.uri \in DOMAIN entries
    /\ entries[last.uri].cached_data = None
    /\ \E t \in Tasks : pc[t] = "body" /\ req[t].uri = last.uri

\* C20: for get_file, get_file_nodes, export_images and get_me, a response
\* with a non-2xx status gives a FigmaApi error with the status and the body
\* text, a 2xx response whose payload has the field err gives a FigmaApi
\* error with the content of that field, and every other 2xx response gives
\* the parsed payload unchanged.
GatewayMethods == {"get_file", "get_file_nodes", "export_images", "get_me"}
IsGatewayResponse(o) ==
    /\ o.op \in GatewayMethods /\ o.step \in {"", "gateway"}
    /\ o.arg.kind = "response"
HasErr(body) ==
    /\ body.json # None
    /\ body.json[1].kind = "object"
    /\ "err" \in DOMAIN body.json[1].fields

C20_EveryOther2xxIsPayload ==
    IsGatewayResponse(last)
    => /\ ~is_success(last.arg.status)
          => /\ last.ret.kind = "Err" /\ last.ret.error = "FigmaApi"
             /\ last.ret.msg = "HTTP " \o status_display(last.arg.status) \o ": "
                                  \o unwrap_or(last.arg.body.text, "")
       /\ (is_success(last.arg.status) /\ HasErr(last.arg.body))
          => /\ last.ret.kind = "Err" /\ last.ret.error = "FigmaApi"
             /\ last.ret.msg = value_to_string(last.arg.body.json[1].fields["err"])
       /\ (is_success(last.arg.status) /\ ~HasErr(last.arg.body))
          => last.ret.kind = "Ok"

\* C20 (amended): as above, except that among the 2xx responses without the
\* field err only those whose body parses as JSON give the parsed payload
\* unchanged; a 2xx response whose body cannot be read or is not JSON gives
\* a Network error.
C20_ResponseClassification ==
    IsGatewayResponse(last)
    => /\ ~is_success(last.arg.status)
          => /\ last.ret.kind = "Err" /\ last.ret.error = "FigmaApi"
             /\ last.ret.msg = "HTTP " \o status_display(last.arg.status) \o ": "
                                  \o unwrap_or(last.arg.body.text, "")
       /\ (is_success(last.arg.status) /\ HasErr(last.arg.body))
          => /\ last.ret.kind = "Err" /\ last.ret.error = "FigmaApi"
             /\ last.ret.msg = value_to_string(last.arg.body.json[1].fields["err"])
       /\ (is_success(last.arg.status) /\ ~HasErr(last.arg.body)
             /\ last.arg.body.json # None)
          => last.ret = Ok(last.arg.body.json[1])
       /\ (is_success(last.arg.status) /\ last.arg.body.json = None)
          => last.ret.kind = "Err" /\ last.ret.error = "Network"

\* get_me has answered a 200 whose payload has the field err with the
\* FigmaApi error of that field
C20_Witness ==
    /\ last.op = "get_me"
    /\ last.arg.kind = "response" /\ last.arg.status = 200
    /\ HasErr(last.arg.body)
    /\ last.ret = Err("FigmaApi", "\"Not found\"")

\* C21: parse keeps two tiers apart. For every URL (every string that
\* Url::parse accepts) whose host is neither figma.com nor www.figma.com it
\* fails with an InvalidUrl error; for every URL with one of these hosts it
\* succeeds, with the type File or Unknown.
VendorHosts == {<<"f", "i", "g", "m", "a", ".", "c", "o", "m">>, <<"w", "w", "w", ".", "f", "i", "g", "m", "a", ".", "c", "o", "m">>}

C21_TwoTier ==
    (last.op = "parse" /\ url_parse(last.arg).kind = "Ok")
    => IF /\ url_parse(last.arg).value.host # None
          /\ url_parse(last.arg).value.host[1] \in VendorHosts
       THEN /\ last.ret.kind = "Ok"
            /\ last.ret.value.url_type.kind \in {"File", "Unknown"}
       ELSE /\ last.ret.kind = "Err"
            /\ last.ret.error = "InvalidUrl"

\* parse has refused a URL whose host only ends in figma.com
C21_Witness ==
    /\ last.op = "parse"
    /\ url_parse(last.arg).kind = "Ok"
    /\ url_parse(last.arg).value.host = Some(<<"n", "o", "t", "f", "i", "g", "m", "a", ".", "c", "o", "m">>)
    /\ last.ret = Err("InvalidUrl", <<"Not a Figma URL: ", last.arg>>)

\* C22: every http or https URL on figma.com or www.figma.com whose path
\* has the segment file or design followed by an alphanumeric identifier
\* segment is classified as File with that segment as file_id; node_id is the
\* value of the query parameter node-id as written, up to the next "&", and
\* is absent when the URL has no parameter node-id; original_url is the
\* input. Stated here for the plainest such URLs only: scheme and host in
\* lower case, no userinfo and no port, file or design as the first path
\* segment; a parameter node-id with an empty value may give either answer,
\* and of several parameters node-id any one may be reported.
\*
\* where the path starts, for a URL that begins with one of the four
\* prefixes, and 0 for any other string
PathStart(str) ==
    IF at(str, 1, <<"h", "t", "t", "p", "s", ":", "/", "/", "f", "i", "g", "m", "a", ".", "c", "o", "m">>) THEN 18
    ELSE IF at(str, 1, <<"h", "t", "t", "p", "s", ":", "/", "/", "w", "w", "w", ".", "f", "i", "g", "m", "a", ".", "c", "o", "m">>) THEN 22
    ELSE IF at(str, 1, <<"h", "t", "t", "p", ":", "/", "/", "f", "i", "g", "m", "a", ".", "c", "o", "m">>) THEN 17
    ELSE IF at(str, 1, <<"h", "t", "t", "p", ":", "/", "/", "w", "w", "w", ".", "f", "i", "g", "m", "a", ".", "c", "o", "m">>) THEN 21
    ELSE 0
\* where the identifier segment starts, 0 if the path does not begin with
\* /file/ or /design/
IdStart(str) ==
    IF PathStart(str) = 0 THEN 0
    ELSE IF at(str, PathStart(str), <<"/", "f", "i", "l", "e", "/">>) THEN PathStart(str) + 6
    ELSE IF at(str, PathStart(str), <<"/", "d", "e", "s", "i", "g", "n", "/">>) THEN PathStart(str) + 8
    ELSE 0
IdEnd(str) == find(str, IdStart(str), {"/", "?", "#"})
IsPlainFileUrl(str) ==
    /\ IdStart(str) > 0
    /\ IdEnd(str) > IdStart(str)
    /\ \A k \in IdStart(str)..(IdEnd(str) - 1) : is_ascii_alphanumeric(str[k])
\* the query runs from the first "?" that comes before any "#" to that "#"
QueryStart(str) ==
    LET i == find(str, IdEnd(str), {"?", "#"}) IN
      IF i <= Len(str) /\ str[i] = "?" THEN i + 1 ELSE 0
QueryEnd(str) == find(str, QueryStart(str), {"#"})
\* the values of the parameters of the query whose name is node-id
NodeIdValues(str) ==
    IF QueryStart(str) = 0 THEN {}
    ELSE {SubSeq(str, k + 8, find(str, k + 8, {"&", "#"}) - 1) :
            k \in {j \in QueryStart(str)..(QueryEnd(str) - 1) :
                     /\ j = QueryStart(str) \/ str[j - 1] = "&"
                     /\ at(str, j, <<"n", "o", "d", "e", "-", "i", "d", "=">>)}}

C22_FileClassification ==
    (last.op = "parse" /\ IsPlainFileUrl(last.arg))
    => /\ last.ret.kind = "Ok"
       /\ last.ret.value.original_url = last.arg
       /\ last.ret.value.url_type.kind = "File"
       /\ last.ret.value.url_type.file_id
             = SubSeq(last.arg, IdStart(last.arg), IdEnd(last.arg) - 1)
       /\ \/ /\ last.ret.value.url_type.node_id = None
             /\ NodeIdValues(last.arg) \subseteq {<<>>}
          \/ /\ last.ret.value.url_type.node_id # None
             /\ last.ret.value.url_type.node_id[1] \in NodeIdValues(last.arg)

\* C23: extract_file_id succeeds exactly when parse classifies the URL as
\* File, and then returns the file_id of that classification; for a URL that
\* parse classifies as Unknown it fails with the InvalidUrl error "URL is not
\* a file URL"; when parse fails it fails with the error of parse.
C23_ExtractFileId ==
    (last.op = "extract_file_id")
    => /\ (last.ret.kind = "Ok")
             <=> (parse(last.arg).kind = "Ok"
                    /\ parse(last.arg).value.url_type.kind = "File")
       /\ (last.ret.kind = "Ok")
             => last.ret.value = parse(last.arg).value.url_type.file_id
       /\ (parse(last.arg).kind = "Ok" /\ parse(last.arg).value.url_type = Unknown)
             => last.ret = Err("InvalidUrl", <<"URL is not a file URL: ", last.arg>>)
       /\ (parse(last.arg).kind = "Err") => last.ret = parse(last.arg)

\* extract_file_id has refused a URL that parse classifies as Unknown
C23_Witness ==
    /\ last.op = "extract_file_id"
    /\ parse(last.arg) = Ok([url_type |-> Unknown, original_url |-> last.arg])
    /\ last.ret = Err("InvalidUrl", <<"URL is not a file URL: ", last.arg>>)

\* C24: the URI of a registration with scale 1.0 is
\* figma://file/{file_key}/node/{node_id}.{format}, without a suffix; with
\* any other scale it is figma://file/{file_key}/node/{node_id}@{n}x.{format}
\* where n is the integer part of the scale (2.0 gives @2x directly before
\* the extension); two registrations of the same tuple get the same URI.
C24_UriGeneration ==
    [][(last'.op = "register_export" /\ last'.status = "Ok")
       => /\ last'.arg.scale = ScaleOne
             => last'.uri = "figma://file/" \o last'.arg.file_key \o "/node/"
                               \o last'.arg.node_id \o "." \o last'.arg.format
          /\ last'.arg.scale # ScaleOne
             => \E n \in 0..3 :
                  /\ n * ScaleOne <= last'.arg.scale
                  /\ last'.arg.scale < (n + 1) * ScaleOne
                  /\ last'.uri = "figma://file/" \o last'.arg.file_key \o "/node/"
                                    \o last'.arg.node_id \o "@" \o ToString(n) \o "x."
                                    \o last'.arg.format
          /\ (last.op = "register_export" /\ last.status = "Ok"
                /\ [last.arg EXCEPT !.figma_url = ""] = [last'.arg EXCEPT !.figma_url = ""])
             => last'.uri = last.uri]_vars

\* a registration with scale 2.0 has just returned the URI with @2x
C24_Witness ==
    /\ last.op = "register_export" /\ last.status = "Ok"
    /\ last.arg.scale = 2 * ScaleOne
    /\ last.uri = "figma://file/ABC123/node/1:2@2x.png"
    /\ last.uri \in DOMAIN entries

\* C25: in every reachable state each key of the map is the URI generated
\* from the file_key, node_id, format and scale of the entry stored under it;
\* update_cached_data changes only cached_data of the entry it names: the
\* other fields of that entry, its export_time and every other entry stay.
C25_KeysAndUpdate ==
    [][/\ \A u \in DOMAIN entries' :
            u = generate_uri(entries'[u].file_key, entries'[u].node_id,
                             entries'[u].format, entries'[u].scale)
       /\ (last'.op = "update_cached_data")
          => /\ DOMAIN entries' = DOMAIN entries
             /\ \A u \in DOMAIN entries :
                   IF u = last'.uri
                   THEN /\ entries'[u] = [entries[u] EXCEPT !.cached_data = Some(last'.arg)]
                        /\ entries'[u].export_time = entries[u].export_time
                   ELSE entries'[u] = entries[u]]_vars

\* update_cached_data has just stored bytes in the entry of scale 2.5, kept
\* under the @2x URI, next to another entry that has none
C25_Witness ==
    /\ last.op = "update_cached_data" /\ last.status = "Ok"
    /\ entries[last.uri].scale = 25
    /\ entries[last.uri].cached_data = Some(last.arg)
    /\ \E u \in DOMAIN entries : u # last.uri /\ entries[u].cached_data = None

\* C26: cached bytes always belong to the current registration. Bytes enter
\* an entry only at the persist step of a read, so the claim is that every
\* read that stores bytes downloaded them from the figma_url the entry has
\* at that moment; a read that took its copy of the entry before a
\* re-registration with another URL never stores into the new entry.
C26_BytesOfCurrentRegistration ==
    [][(IsRead(last') /\ last'.step = "body" /\ last'.status = "Ok"
          /\ last'.uri \in DOMAIN entries')
       => \A t \in Tasks :
             (pc[t] = "body" /\ pc'[t] = "idle"
                /\ entries'[last'.uri].cached_data = Some(last'.ret))
             => req[t].figma_url = entries'[last'.uri].figma_url]_vars

\* C27: URI generation is injective on registered tuples. A registration
\* replaces an entry only when the file_key, node_id, format and scale of
\* that entry are those of the call; registrations that differ in one of
\* them (the same node at scales 2.0 and 2.5, for instance) never replace
\* one another.
C27_InjectiveUris ==
    [][(last'.op = "register_export" /\ last'.status = "Ok" /\ last'.ret # None)
       => /\ last'.ret[1].file_key = last'.arg.file_key
          /\ last'.ret[1].node_id = last'.arg.node_id
          /\ last'.ret[1].format = last'.arg.format
          /\ last'.ret[1].scale = last'.arg.scale]_vars

\* C28: an export_images whose gateway call fails (transport error, non-2xx
\* status, or a payload with the field err) returns a failure made of the
\* gateway error and leaves the cache as it was: no entry is registered,
\* replaced or reset, and the handler does not enter its registration loop.
C28_FailedExportLeavesCache ==
    [][(last'.op = "export_images" /\ last'.step = "response" /\ last'.status # "Pending")
       => /\ \/ last'.arg.kind = "transport_error"
             \/ ~is_success(last'.arg.status)
             \/ HasErr(last'.arg.body)
             \/ last'.arg.body.json = None
          /\ last'.status = "Error"
          /\ last'.ret.kind = "Err"
          /\ last'.ret.error = (IF last'.arg.kind = "response"
                                   /\ (~is_success(last'.arg.status) \/ HasErr(last'.arg.body))
                                THEN "FigmaApi" ELSE "Network")
          /\ entries' = entries
          /\ exp.pc = "idle" /\ exp' = exp]_vars

\* an export has just failed on a 200 response whose payload has the field
\* err, with an entry of an earlier export in the cache
C28_Witness ==
    /\ last.op = "export_images" /\ last.step = "response" /\ last.status = "Error"
    /\ last.arg.kind = "response" /\ last.arg.status = 200 /\ HasErr(last.arg.body)
    /\ last.ret = Err("FigmaApi", "\"Not found\"")
    /\ DOMAIN entries # {}

====
